---- MODULE Spec2Model ----
(***************************************************************************)
(* RingMPSC (src/include/ringmpsc.hpp): a multi-producer single-consumer   *)
(* channel made of one SPSC ring per registered producer.                  *)
(*                                                                         *)
(* Every atomic load, store or read-modify-write of the header that       *)
(* touches a location another thread can write is one step of the model;   *)
(* code that only touches locations private to the executing side is       *)
(* folded into the step that follows it.  Memory is sequentially           *)
(* consistent.                                                             *)
(***************************************************************************)
EXTENDS Integers, Sequences, FiniteSets, TLC

(***************************************************************************)
(* Bounds of the model.                                                    *)
(***************************************************************************)
\* Config::ring_bits of the rings that are checked (the header's default is 16)
RingBits == 1
\* Config::max_producers of the channels that are checked (the default is 16)
MaxProducers == 2
\* threads of the model; those beyond max_producers overflow the registration
NumThreads == 4
\* items a producer commits at most
MaxItems == 3
\* width of the model's position words; std::uint64_t has 64 bits, which
\* TLC's integers cannot hold.  Positions stay far below 2^WordBits,
\* so a difference wraps exactly where the 64-bit difference wraps.
WordBits == 5

CAPACITY == 2 ^ RingBits
MASK == CAPACITY - 1
Wrap == 2 ^ WordBits

Rings == 0 .. (MaxProducers - 1)
Threads == 0 .. (NumThreads - 1)
Cells == 0 .. (CAPACITY - 1)
NoRing == 0 - 1

\* std::uint64_t / std::size_t arithmetic
Sub(a, b) == (a - b + Wrap) % Wrap
Add(a, b) == (a + b) % Wrap
Min(a, b) == IF a <= b THEN a ELSE b
\* pos & MASK, with MASK = CAPACITY - 1 and CAPACITY a power of two
Index(pos) == pos % (MASK + 1)

\* The k-th item (k = 1, 2, ...) that thread t writes.
Item(t, k) == <<t, k>>
\* A cell that was never written holds an indeterminate value.
Indeterminate == <<>>
GarbageItems == {<<0, 0>>, <<1, 0>>}

VARIABLES
    \* Ring fields, one of each per ring of the channel
    tail, cached_head, head, cached_tail, active, closed, buffer, metrics,
    \* Channel fields
    producer_count, ch_closed,
    \* the Producer handle each thread holds (NoRing: none)
    handle,
    \* the producer-side call each thread is in
    prod,
    \* the register_producer call each thread is in
    reg,
    \* the consumer thread's call
    cons,
    \* the thread calling Channel::close
    closer,
    \* a thread of its own calling len() / is_full() on ring 0
    obs,
    \* history: the items committed to each ring and the items delivered from it
    committed, received

ringVars == <<tail, cached_head, head, cached_tail, active, closed, buffer,
              metrics>>
chanVars == <<producer_count, ch_closed>>
vars == <<tail, cached_head, head, cached_tail, active, closed, buffer, metrics,
          producer_count, ch_closed, handle, prod, reg, cons, closer, obs,
          committed, received>>

NoRet == [kind |-> "void", val |-> 0]
RetNone == [kind |-> "none", val |-> 0]
RetSome(n) == [kind |-> "some", val |-> n]
RetCount(n) == [kind |-> "count", val |-> n]

ProdIdle ==
    [pc |-> "idle", op |-> "reserve", n |-> 0, pos |-> 0, len |-> 0, w |-> 0,
     step |-> 0, ret |-> NoRet, sent |-> 0, startClosed |-> FALSE,
     startRoom |-> FALSE]

\* A producer-side call returns ret: its locals are gone.
ProdReturn(pr, ret) == [ProdIdle EXCEPT !.op = pr.op, !.ret = ret, !.sent = pr.sent]

ConsIdle ==
    [pc |-> "idle", api |-> "readable", ring |-> 0, lhead |-> 0, ltail |-> 0,
     slen |-> 0, n |-> 0, k |-> 0, got |-> <<>>, ret |-> NoRet,
     chop |-> "none", cnt |-> 0, i |-> 0, total |-> 0, outsz |-> 0,
     out |-> <<>>]

\* A consumer-side call returns ret: its locals are gone.
ConsReturn(c, ret) ==
    [ConsIdle EXCEPT !.api = c.api, !.ring = c.ring, !.ret = ret]

RegIdle == [pc |-> "idle", id |-> 0, ret |-> "none", startFull |-> FALSE]

CloserIdle == [pc |-> "idle", cnt |-> 0, i |-> 0, calls |-> 0]

\* No len() call in progress; ret is what the last one returned
ObsIdle == [pc |-> "idle", ltail |-> 0, ret |-> NoRet]

\* Ring(): the fields of every ring as constructed, and no call in progress
\* Metrics{}: the message counters of a ring (enable_metrics = true)
NoMetrics == [messages_sent |-> 0, messages_received |-> 0]

InitRings ==
    /\ tail = [r \in Rings |-> 0]
    /\ cached_head = [r \in Rings |-> 0]
    /\ head = [r \in Rings |-> 0]
    /\ cached_tail = [r \in Rings |-> 0]
    /\ closed = [r \in Rings |-> FALSE]
    /\ buffer = [r \in Rings |-> [i \in Cells |-> Indeterminate]]
    /\ metrics = [r \in Rings |-> NoMetrics]
    /\ ch_closed = FALSE
    /\ prod = [t \in Threads |-> ProdIdle]
    /\ cons = ConsIdle
    /\ closer = CloserIdle
    /\ obs = ObsIdle
    /\ committed = [r \in Rings |-> <<>>]
    /\ received = [r \in Rings |-> <<>>]

\* Channel(): no producer registered
InitUnregistered ==
    /\ active = [r \in Rings |-> FALSE]
    /\ producer_count = 0
    /\ reg = [t \in Threads |-> RegIdle]

\* A Ring used on its own: thread 0 is its producer.
InitRing ==
    /\ InitRings
    /\ InitUnregistered
    /\ handle = [t \in Threads |-> IF t = 0 THEN 0 ELSE NoRing]

(***************************************************************************)
(* Backoff                                                                 *)
(***************************************************************************)
SPIN_LIMIT == 6
YIELD_LIMIT == 10

\* Backoff::spin: the step after 2^min(step, SPIN_LIMIT) cpu_relax
Spin(step) == IF step <= SPIN_LIMIT THEN step + 1 ELSE step

\* A snooze that only ever spins
SnoozeSpinOnly(step) == Spin(step)

\* Backoff::snooze
Snooze(step) ==
    IF step <= SPIN_LIMIT THEN Spin(step)
    ELSE IF step <= YIELD_LIMIT THEN step + 1 ELSE step

\* A Backoff that never completes
IsCompletedNever(step) == FALSE

\* Backoff::is_completed
IsCompleted(step) == step > YIELD_LIMIT

\* Backoff::reset
Reset(step) == 0

\* A thread that is in no call of the ring owns a Backoff of its own (as the
\* producer threads of the benchmark do); prod[t].step is its step_.
\* backoff.spin()
BackoffSpin(t) ==
    /\ prod[t].pc = "idle"
    /\ prod' = [prod EXCEPT ![t].step = Spin(@)]
    /\ UNCHANGED <<obs, ringVars, chanVars, handle, reg, cons, closer,
                   committed, received>>

\* backoff.snooze()
BackoffSnoozeCall(t) ==
    /\ prod[t].pc = "idle"
    /\ prod' = [prod EXCEPT ![t].step = Snooze(@)]
    /\ UNCHANGED <<obs, ringVars, chanVars, handle, reg, cons, closer,
                   committed, received>>

\* backoff.reset()
BackoffReset(t) ==
    /\ prod[t].pc = "idle"
    /\ prod' = [prod EXCEPT ![t].step = Reset(@)]
    /\ UNCHANGED <<obs, ringVars, chanVars, handle, reg, cons, closer,
                   committed, received>>

(***************************************************************************)
(* Ring, producer side.  Thread t drives the ring of its handle.           *)
(***************************************************************************)
\* Space without the check against head
SpaceUnchecked(tl, ch) == CAPACITY

\* Space counted one too high
SpaceOffByOne(tl, ch) == Sub(CAPACITY + 1, Sub(tl, ch))

\* reserve: space = CAPACITY - (tail - cached_head_), in std::size_t
Space(tl, ch) == Sub(CAPACITY, Sub(tl, ch))

\* A slice that is not cut at the end of the buffer
ContiguousWhole(tl, n) == n

\* make_reservation: the length of the slice
Contiguous(tl, n) == Min(n, CAPACITY - Index(tl))

\* make_reservation(tail, n)
MakeReservation(pr, tl, n) ==
    [pr EXCEPT !.pc = "write", !.pos = tl, !.len = Contiguous(tl, n), !.w = 0,
               !.ret = RetSome(Contiguous(tl, n))]

\* reserve returned std::nullopt: what its caller does with it
ReserveNone(pr) ==
    IF pr.op = "backoff" THEN [pr EXCEPT !.pc = "bo_closed"]
    ELSE IF pr.op = "send" THEN ProdReturn(pr, RetCount(0))
    ELSE ProdReturn(pr, RetNone)

\* reserve up to the first load of a location the consumer writes: the
\* argument check and the fast path on cached_head_
ReserveEntry(pr, r) ==
    IF pr.n = 0 \/ pr.n > CAPACITY THEN ReserveNone(pr)
    ELSE IF Space(tail[r], cached_head[r]) >= pr.n
         THEN MakeReservation(pr, tail[r], pr.n)
         ELSE [pr EXCEPT !.pc = "refresh"]

\* A call of reserve(n), reserve_with_backoff(n) or send(items) with
\* items.size() = n.
ReserveCall(t, op, n) ==
    /\ handle[t] # NoRing
    /\ prod[t].pc = "idle"
    /\ (n >= 1 /\ n <= CAPACITY) => prod[t].sent + n <= MaxItems
    /\ prod' = [prod EXCEPT ![t] =
                  ReserveEntry([@ EXCEPT !.op = op, !.n = n, !.step = 0,
                                         !.ret = NoRet,
                                         !.startClosed = closed[handle[t]],
                                         !.startRoom =
                                             Space(tail[handle[t]],
                                                   head[handle[t]]) >= n],
                               handle[t])]
    /\ UNCHANGED <<obs, ringVars, chanVars, handle, reg, cons, closer,
                   committed, received>>

\* reserve's slow path deciding on the cached_head_ it already had
ReserveRefreshStale(t) ==
    LET r == handle[t]
        pr == prod[t]
    IN  /\ pr.pc = "refresh"
        /\ prod' = [prod EXCEPT ![t] =
                      IF Space(tail[r], cached_head[r]) < pr.n THEN ReserveNone(pr)
                      ELSE [pr EXCEPT !.pc = "chk_closed"]]
        /\ UNCHANGED <<obs, ringVars, chanVars, handle, reg, cons, closer,
                       committed, received>>

\* reserve: the slow path's acquire-load of head_
ReserveRefresh(t) ==
    LET r == handle[t]
        pr == prod[t]
    IN  /\ pr.pc = "refresh"
        /\ cached_head' = [cached_head EXCEPT ![r] = head[r]]
        /\ prod' = [prod EXCEPT ![t] =
                      IF Space(tail[r], head[r]) < pr.n THEN ReserveNone(pr)
                      ELSE [pr EXCEPT !.pc = "chk_closed"]]
        /\ UNCHANGED <<obs, metrics, tail, head, cached_tail, active, closed, buffer,
                       chanVars, handle, reg, cons, closer, committed, received>>

\* reserve: is_closed() after the refresh
ReserveIsClosed(t) ==
    LET r == handle[t]
        pr == prod[t]
    IN  /\ pr.pc = "chk_closed"
        /\ prod' = [prod EXCEPT ![t] =
                      IF closed[r] THEN ReserveNone(pr)
                      ELSE MakeReservation(pr, tail[r], pr.n)]
        /\ UNCHANGED <<obs, ringVars, chanVars, handle, reg, cons, closer,
                       committed, received>>

\* reserve_with_backoff: is_closed() after a failed reserve
BackoffIsClosed(t) ==
    LET r == handle[t]
        pr == prod[t]
    IN  /\ pr.pc = "bo_closed"
        /\ prod' = [prod EXCEPT ![t] =
                      IF closed[r] THEN ProdReturn(pr, RetNone)
                      ELSE [pr EXCEPT !.pc = "bo_snooze"]]
        /\ UNCHANGED <<obs, ringVars, chanVars, handle, reg, cons, closer,
                       committed, received>>

\* reserve_with_backoff: backoff.snooze(), the loop test and the next reserve
BackoffSnooze(t) ==
    LET r == handle[t]
        pr == prod[t]
        st == Snooze(pr.step)
    IN  /\ pr.pc = "bo_snooze"
        /\ prod' = [prod EXCEPT ![t] =
                      IF IsCompleted(st)
                      THEN ProdReturn(pr, RetNone)
                      ELSE ReserveEntry([pr EXCEPT !.step = st], r)]
        /\ UNCHANGED <<obs, ringVars, chanVars, handle, reg, cons, closer,
                       committed, received>>

\* The caller (or send's std::ranges::copy) writes the next cell of the slice.
WriteSlice(t) ==
    LET r == handle[t]
        pr == prod[t]
    IN  /\ pr.pc = "write"
        /\ pr.w < pr.len
        /\ buffer' = [buffer EXCEPT ![r][Index(pr.pos + pr.w)] =
                        Item(t, pr.sent + pr.w + 1)]
        /\ prod' = [prod EXCEPT ![t].w = pr.w + 1]
        /\ UNCHANGED <<obs, metrics, tail, cached_head, head, cached_tail, active, closed,
                       chanVars, handle, reg, cons, closer, committed, received>>

\* commit advancing tail by the length asked for instead of the slice's
CommitRequested(t) ==
    LET r == handle[t]
        pr == prod[t]
    IN  /\ pr.pc = "write"
        /\ pr.w = pr.len
        /\ tail' = [tail EXCEPT ![r] = Add(tail[r], pr.n)]
        /\ committed' = [committed EXCEPT ![r] =
                           @ \o [j \in 1 .. pr.len |-> Item(t, pr.sent + j)]]
        /\ metrics' = [metrics EXCEPT ![r].messages_sent = Add(@, pr.len)]
        /\ prod' = [prod EXCEPT ![t] =
                      ProdReturn([pr EXCEPT !.sent = pr.sent + pr.len],
                                 IF pr.op = "send" THEN RetCount(pr.len)
                                 ELSE NoRet)]
        /\ UNCHANGED <<obs, cached_head, head, cached_tail, active, closed, buffer,
                       chanVars, handle, reg, cons, closer, received>>

\* commit(n) with n the length of the reserved slice
Commit(t) ==
    LET r == handle[t]
        pr == prod[t]
    IN  /\ pr.pc = "write"
        /\ pr.w = pr.len
        /\ tail' = [tail EXCEPT ![r] = Add(tail[r], pr.len)]
        /\ committed' = [committed EXCEPT ![r] =
                           @ \o [j \in 1 .. pr.len |-> Item(t, pr.sent + j)]]
        /\ metrics' = [metrics EXCEPT ![r].messages_sent = Add(@, pr.len)]
        /\ prod' = [prod EXCEPT ![t] =
                      ProdReturn([pr EXCEPT !.sent = pr.sent + pr.len],
                                 IF pr.op = "send" THEN RetCount(pr.len)
                                 ELSE NoRet)]
        /\ UNCHANGED <<obs, cached_head, head, cached_tail, active, closed, buffer,
                       chanVars, handle, reg, cons, closer, received>>

\* Ring::close dropping what is pending
RingCloseDiscard(r) ==
    /\ closed' = [closed EXCEPT ![r] = TRUE]
    /\ head' = [head EXCEPT ![r] = tail[r]]
    /\ UNCHANGED <<obs, metrics, tail, cached_head, cached_tail, active, buffer,
                   chanVars, handle, prod, reg, cons, closer, committed, received>>

\* Ring::close
RingClose(r) ==
    /\ closed' = [closed EXCEPT ![r] = TRUE]
    /\ UNCHANGED <<obs, metrics, tail, cached_head, head, cached_tail, active, buffer,
                   chanVars, handle, prod, reg, cons, closer, committed, received>>

(***************************************************************************)
(* Ring, consumer side.  One consumer thread serves every ring.            *)
(***************************************************************************)
\* What a read of a cell yields.
ReadOutcomes(v) == IF v = Indeterminate THEN GarbageItems ELSE {v}

\* The loop of Channel::recv / consume_all forgetting to add to total
RingReturnUncounted(c, v) ==
    IF c.chop = "none" THEN ConsReturn(c, RetCount(v))
    ELSE [ConsIdle EXCEPT !.pc = "ch_loop", !.api = c.api, !.chop = c.chop,
                          !.cnt = c.cnt, !.outsz = c.outsz, !.out = c.out,
                          !.total = c.total, !.i = c.i + 1]

\* A ring-level call returned the count v: back to the caller, which is the
\* consumer's own code or the loop of Channel::recv / Channel::consume_all.
RingReturn(c, v) ==
    IF c.chop = "none" THEN ConsReturn(c, RetCount(v))
    ELSE [ConsIdle EXCEPT !.pc = "ch_loop", !.api = c.api, !.chop = c.chop,
                          !.cnt = c.cnt, !.outsz = c.outsz, !.out = c.out,
                          !.total = c.total + v, !.i = c.i + 1]

\* readable's result with avail # 0: the slice [idx, idx + contiguous)
Slice(c, hd, avail) ==
    LET contiguous == Min(avail, CAPACITY - Index(hd))
    IN  [c EXCEPT !.pc = "slice", !.lhead = hd, !.slen = contiguous,
                  !.n = IF c.api = "recv" THEN Min(contiguous, c.n) ELSE 0,
                  !.k = 0, !.got = <<>>,
                  !.ret = IF c.api = "recv" THEN c.ret ELSE RetSome(contiguous)]

\* readable returned std::nullopt
ReadableNone(c) ==
    IF c.api = "recv" THEN RingReturn(c, 0)
    ELSE ConsReturn(c, RetNone)

\* readable loading tail_ on every call, whatever cached_tail_ holds
ReadableEntryRefreshing(c, r) == [c EXCEPT !.pc = "rd_refresh", !.ring = r]

\* readable up to the first load of a location the producer writes: the
\* check of cached_tail_
ReadableEntry(c, r) ==
    LET avail == Sub(cached_tail[r], head[r])
    IN  IF avail = 0 THEN [c EXCEPT !.pc = "rd_refresh", !.ring = r]
        ELSE Slice([c EXCEPT !.ring = r], head[r], avail)

\* consume_batch: the loads of head_ and tail_ and the test of avail
BatchEntry(c, r) ==
    IF Sub(tail[r], head[r]) = 0 THEN RingReturn([c EXCEPT !.ring = r], 0)
    ELSE [c EXCEPT !.pc = "cb_loop", !.ring = r, !.lhead = head[r],
                   !.ltail = tail[r], !.k = 0, !.got = <<>>]

\* Bounds the exploration: once head_ has passed tail_ the ring is corrupt
\* (consume_batch would then run for about 2^64 iterations), and the model
\* starts no further consumer call on it.
ConsumerBound(r) == Sub(tail[r], head[r]) <= CAPACITY

\* A call of readable() on ring r
ReadableCall(r) ==
    /\ cons.pc = "idle"
    /\ ConsumerBound(r)
    /\ cons' = ReadableEntry([cons EXCEPT !.api = "readable", !.ret = NoRet,
                                          !.out = <<>>, !.n = 0], r)
    /\ UNCHANGED <<obs, ringVars, chanVars, handle, prod, reg, closer,
                   committed, received>>

\* A call of Ring::recv(out) on ring r, with out.size() = outn
RecvCall(r, outn) ==
    /\ cons.pc = "idle"
    /\ ConsumerBound(r)
    /\ cons' = ReadableEntry([cons EXCEPT !.api = "recv", !.ret = NoRet,
                                          !.out = <<>>, !.n = outn], r)
    /\ UNCHANGED <<obs, ringVars, chanVars, handle, prod, reg, closer,
                   committed, received>>

\* readable: the acquire-load of tail_
ReadableRefresh ==
    LET r == cons.ring
        avail == Sub(tail[r], head[r])
    IN  /\ cons.pc = "rd_refresh"
        /\ cached_tail' = [cached_tail EXCEPT ![r] = tail[r]]
        /\ cons' = IF avail = 0 THEN ReadableNone(cons)
                   ELSE Slice(cons, head[r], avail)
        /\ UNCHANGED <<obs, metrics, tail, cached_head, head, active, closed, buffer,
                       chanVars, handle, prod, reg, closer, committed, received>>

\* The consumer (or recv's std::ranges::copy) reads the next cell of the slice.
ReadSlice ==
    LET r == cons.ring
    IN  /\ cons.pc = "slice"
        /\ cons.k < (IF cons.api = "recv" THEN cons.n ELSE cons.slen)
        /\ \E v \in ReadOutcomes(buffer[r][Index(cons.lhead + cons.k)]) :
              cons' = [cons EXCEPT !.k = cons.k + 1, !.got = Append(cons.got, v),
                                   !.out = IF cons.api = "recv"
                                           THEN Append(cons.out, v) ELSE cons.out]
        /\ UNCHANGED <<obs, ringVars, chanVars, handle, prod, reg, closer,
                       committed, received>>

\* advance(n) leaving messages_received as it was
AdvanceUncounted ==
    LET r == cons.ring
    IN  /\ cons.pc = "slice"
        /\ cons.api = "recv" => cons.k = cons.n
        /\ head' = [head EXCEPT ![r] = Add(head[r], cons.k)]
        /\ received' = [received EXCEPT ![r] = @ \o cons.got]
        /\ cons' = IF cons.api = "recv" THEN RingReturn(cons, cons.k)
                   ELSE ConsReturn(cons, NoRet)
        /\ UNCHANGED <<obs, tail, cached_head, cached_tail, active, closed, buffer,
                       metrics, chanVars, handle, prod, reg, closer, committed>>

\* advance(n): after readable, n is the number of cells the consumer has
\* read (any n up to the slice's length); in recv, n = min(slice, out).
Advance ==
    LET r == cons.ring
    IN  /\ cons.pc = "slice"
        /\ cons.api = "recv" => cons.k = cons.n
        /\ head' = [head EXCEPT ![r] = Add(head[r], cons.k)]
        /\ received' = [received EXCEPT ![r] = @ \o cons.got]
        /\ metrics' = [metrics EXCEPT ![r].messages_received = Add(@, cons.k)]
        /\ cons' = IF cons.api = "recv" THEN RingReturn(cons, cons.k)
                   ELSE ConsReturn(cons, NoRet)
        /\ UNCHANGED <<obs, tail, cached_head, cached_tail, active, closed, buffer,
                       chanVars, handle, prod, reg, closer, committed>>

\* A call of consume_batch(handler) on ring r
BatchCall(r) ==
    /\ cons.pc = "idle"
    /\ ConsumerBound(r)
    /\ cons' = BatchEntry([cons EXCEPT !.api = "batch", !.ret = NoRet,
                                       !.out = <<>>, !.n = 0], r)
    /\ UNCHANGED <<obs, ringVars, chanVars, handle, prod, reg, closer,
                   committed, received>>

\* consume_batch: handler.process(buffer_.data() + idx); ++pos; ++count
BatchProcess ==
    LET r == cons.ring
    IN  /\ cons.pc = "cb_loop"
        /\ Add(cons.lhead, cons.k) # cons.ltail
        /\ \E v \in ReadOutcomes(buffer[r][Index(cons.lhead + cons.k)]) :
              /\ cons' = [cons EXCEPT !.k = cons.k + 1, !.got = Append(cons.got, v)]
              /\ received' = [received EXCEPT ![r] = Append(@, v)]
        /\ UNCHANGED <<obs, ringVars, chanVars, handle, prod, reg, closer, committed>>

\* consume_batch storing the tail of the moment instead of the one it loaded
BatchStoreLatest ==
    LET r == cons.ring
    IN  /\ cons.pc = "cb_loop"
        /\ Add(cons.lhead, cons.k) = cons.ltail
        /\ head' = [head EXCEPT ![r] = tail[r]]
        /\ metrics' = [metrics EXCEPT ![r].messages_received = Add(@, cons.k)]
        /\ cons' = RingReturn(cons, cons.k)
        /\ UNCHANGED <<obs, tail, cached_head, cached_tail, active, closed, buffer,
                       chanVars, handle, prod, reg, closer, committed, received>>

\* consume_batch storing one position short of the tail it loaded
BatchStoreShort ==
    LET r == cons.ring
    IN  /\ cons.pc = "cb_loop"
        /\ Add(cons.lhead, cons.k) = cons.ltail
        /\ head' = [head EXCEPT ![r] = Sub(cons.ltail, 1)]
        /\ metrics' = [metrics EXCEPT ![r].messages_received = Add(@, cons.k)]
        /\ cons' = RingReturn(cons, cons.k)
        /\ UNCHANGED <<obs, tail, cached_head, cached_tail, active, closed, buffer,
                       chanVars, handle, prod, reg, closer, committed, received>>

\* consume_batch: head_.store(tail) and the return of count
BatchStore ==
    LET r == cons.ring
    IN  /\ cons.pc = "cb_loop"
        /\ Add(cons.lhead, cons.k) = cons.ltail
        /\ head' = [head EXCEPT ![r] = cons.ltail]
        /\ metrics' = [metrics EXCEPT ![r].messages_received = Add(@, cons.k)]
        /\ cons' = RingReturn(cons, cons.k)
        /\ UNCHANGED <<obs, tail, cached_head, cached_tail, active, closed, buffer,
                       chanVars, handle, prod, reg, closer, committed, received>>

(***************************************************************************)
(* Channel                                                                 *)
(***************************************************************************)
\* The handles that register_producer has returned
Registered == {t \in Threads : handle[t] # NoRing}

\* The bound of register_producer off by one
OverflowsOffByOne(id) == id > MaxProducers

\* register_producer: id >= config.max_producers
Overflows(id) == id >= MaxProducers

\* register_producer without its check of closed_
RegisterCallUnchecked(t) ==
    /\ reg[t].pc = "idle"
    /\ handle[t] = NoRing
    /\ reg' = [reg EXCEPT ![t] =
                 [RegIdle EXCEPT !.pc = "fetch_add",
                    !.startFull = (Cardinality(Registered) = MaxProducers)]]
    /\ UNCHANGED <<obs, ringVars, chanVars, handle, prod, cons, closer,
                   committed, received>>

\* register_producer: the load of closed_
RegisterCall(t) ==
    /\ reg[t].pc = "idle"
    /\ handle[t] = NoRing
    /\ reg' = [reg EXCEPT ![t] =
                 IF ch_closed
                 THEN [RegIdle EXCEPT !.ret = "Closed",
                          !.startFull = (Cardinality(Registered) = MaxProducers)]
                 ELSE [RegIdle EXCEPT !.pc = "fetch_add",
                          !.startFull = (Cardinality(Registered) = MaxProducers)]]
    /\ UNCHANGED <<obs, ringVars, chanVars, handle, prod, cons, closer,
                   committed, received>>

\* register_producer: producer_count_.fetch_add(1), and on success
\* mark_active and the return of the handle
RegisterFetchAdd(t) ==
    LET id == producer_count
    IN  /\ reg[t].pc = "fetch_add"
        /\ producer_count' = producer_count + 1
        /\ IF Overflows(id)
           THEN /\ reg' = [reg EXCEPT ![t].pc = "undo"]
                /\ UNCHANGED <<active, handle>>
           ELSE /\ reg' = [reg EXCEPT ![t].pc = "idle", ![t].id = id,
                                      ![t].ret = "Producer"]
                /\ active' = [active EXCEPT ![id] = TRUE]
                /\ handle' = [handle EXCEPT ![t] = id]
        /\ UNCHANGED <<obs, metrics, tail, cached_head, head, cached_tail, closed, buffer,
                       ch_closed, prod, cons, closer, committed, received>>

\* register_producer without the compensating fetch_sub
RegisterUndoMissing(t) ==
    /\ reg[t].pc = "undo"
    /\ reg' = [reg EXCEPT ![t].pc = "idle", ![t].ret = "TooManyProducers"]
    /\ UNCHANGED <<obs, ringVars, chanVars, handle, prod, cons, closer,
                   committed, received>>

\* register_producer: producer_count_.fetch_sub(1) and the return of
\* TooManyProducers
RegisterUndo(t) ==
    /\ reg[t].pc = "undo"
    /\ producer_count' = producer_count - 1
    /\ reg' = [reg EXCEPT ![t].pc = "idle", ![t].ret = "TooManyProducers"]
    /\ UNCHANGED <<obs, ringVars, ch_closed, handle, prod, cons, closer,
                   committed, received>>

\* calls of Channel::close the model follows
MaxCloses == 2

\* Channel::close flipping closed_ instead of setting it
ChanCloseStoreToggle ==
    /\ closer.pc = "idle"
    /\ closer.calls < MaxCloses
    /\ ch_closed' = ~ch_closed
    /\ closer' = [closer EXCEPT !.pc = "load", !.calls = closer.calls + 1]
    /\ UNCHANGED <<obs, ringVars, producer_count, handle, prod, reg, cons,
                   committed, received>>

\* Channel::close: closed_.store(true)
ChanCloseStore ==
    /\ closer.pc = "idle"
    /\ closer.calls < MaxCloses
    /\ ch_closed' = TRUE
    /\ closer' = [closer EXCEPT !.pc = "load", !.calls = closer.calls + 1]
    /\ UNCHANGED <<obs, ringVars, producer_count, handle, prod, reg, cons,
                   committed, received>>

\* Channel::close: the load of producer_count_
ChanCloseLoad ==
    /\ closer.pc = "load"
    /\ closer' = IF producer_count = 0 THEN [CloserIdle EXCEPT !.calls = closer.calls]
                 ELSE [closer EXCEPT !.pc = "loop", !.cnt = producer_count, !.i = 0]
    /\ UNCHANGED <<obs, ringVars, chanVars, handle, prod, reg, cons,
                   committed, received>>

\* Channel::close: rings_[i].close(); rings_[i] with i >= max_producers is
\* outside the array
ChanCloseRing ==
    /\ closer.pc = "loop"
    /\ IF closer.i \in Rings
       THEN /\ closed' = [closed EXCEPT ![closer.i] = TRUE]
            /\ closer' = IF closer.i + 1 < closer.cnt
                         THEN [closer EXCEPT !.i = closer.i + 1]
                         ELSE [CloserIdle EXCEPT !.calls = closer.calls]
       ELSE /\ closer' = [closer EXCEPT !.pc = "out_of_bounds"]
            /\ UNCHANGED closed
    /\ UNCHANGED <<obs, metrics, tail, cached_head, head, cached_tail, active, buffer,
                   chanVars, handle, prod, reg, cons, committed, received>>

\* out.size() of the Channel::recv calls the model follows
MaxOut == 2

\* Channel::recv(out) with out.size() = outsz, or Channel::consume_all:
\* the load of producer_count_
ChanCall(op, outsz) ==
    /\ cons.pc = "idle"
    /\ \A r \in Rings : ConsumerBound(r)
    /\ cons' = [ConsIdle EXCEPT !.pc = "ch_loop", !.chop = op,
                   !.api = IF op = "ch_recv" THEN "recv" ELSE "batch",
                   !.cnt = producer_count, !.outsz = outsz]
    /\ UNCHANGED <<obs, ringVars, chanVars, handle, prod, reg, closer,
                   committed, received>>

\* Channel::recv / consume_all leaving out the last registered ring
ChanLoopSkipLast ==
    /\ cons.pc = "ch_loop"
    /\ cons' =
         IF cons.i + 1 < cons.cnt
            /\ (cons.chop = "consume_all" \/ cons.total < cons.outsz)
         THEN IF cons.i \notin Rings THEN [cons EXCEPT !.pc = "out_of_bounds"]
              ELSE IF cons.chop = "ch_recv"
                   THEN ReadableEntry([cons EXCEPT !.n = cons.outsz - cons.total], cons.i)
                   ELSE BatchEntry(cons, cons.i)
         ELSE [ConsIdle EXCEPT !.api = cons.chop, !.ret = RetCount(cons.total)]
    /\ UNCHANGED <<obs, ringVars, chanVars, handle, prod, reg, closer,
                   committed, received>>

\* Channel::recv / consume_all: the loop's test and the call on rings_[i],
\* up to its first load of a location a producer writes
ChanLoop ==
    /\ cons.pc = "ch_loop"
    /\ cons' =
         IF cons.i < cons.cnt /\ (cons.chop = "consume_all" \/ cons.total < cons.outsz)
         THEN IF cons.i \notin Rings THEN [cons EXCEPT !.pc = "out_of_bounds"]
              ELSE IF cons.chop = "ch_recv"
                   THEN ReadableEntry([cons EXCEPT !.n = cons.outsz - cons.total], cons.i)
                   ELSE BatchEntry(cons, cons.i)
         ELSE [ConsIdle EXCEPT !.api = cons.chop, !.ret = RetCount(cons.total)]
    /\ UNCHANGED <<obs, ringVars, chanVars, handle, prod, reg, closer,
                   committed, received>>

(***************************************************************************)
(* A single ring with its producer and its consumer                        *)
(***************************************************************************)
Sizes == 0 .. (CAPACITY + 1)

ProducerStep(t) ==
    \/ \E n \in Sizes : ReserveCall(t, "reserve", n)
    \/ \E n \in Sizes : ReserveCall(t, "send", n)
    \/ ReserveRefresh(t)
    \/ ReserveIsClosed(t)
    \/ WriteSlice(t)
    \/ Commit(t)

BackoffStep(t) ==
    \/ \E n \in Sizes : ReserveCall(t, "backoff", n)
    \/ BackoffIsClosed(t)
    \/ BackoffSnooze(t)

ReadableStep(r) ==
    \/ ReadableCall(r)
    \/ \E outn \in 0 .. CAPACITY : RecvCall(r, outn)
    \/ ReadableRefresh
    \/ ReadSlice
    \/ Advance

BatchStep(r) ==
    \/ BatchCall(r)
    \/ BatchProcess
    \/ BatchStore

\* A ring whose consumer uses readable/advance and recv.
NextRing == ProducerStep(0) \/ BackoffStep(0) \/ ReadableStep(0) \/ RingClose(0)
SpecRing == InitRing /\ [][NextRing]_vars

\* The same ring when the producer thread keeps running: a call it has
\* entered takes its next step.
SpecRingFair == SpecRing /\ WF_vars(ProducerStep(0) \/ BackoffStep(0))

\* Producer threads that only drive their Backoff objects, each constructed
\* fresh.
NextBackoff ==
    \E t \in Rings : BackoffSpin(t) \/ BackoffSnoozeCall(t) \/ BackoffReset(t)
SpecBackoff == InitRing /\ [][NextBackoff]_vars

\* A ring whose consumer uses readable/advance, recv and consume_batch in
\* any mix.
NextMix == ProducerStep(0) \/ ReadableStep(0) \/ BatchStep(0) \/ RingClose(0)
SpecMix == InitRing /\ [][NextMix]_vars

(***************************************************************************)
(* A channel: threads register concurrently while the channel is closed   *)
(***************************************************************************)
InitChannel ==
    /\ InitRings
    /\ InitUnregistered
    /\ handle = [t \in Threads |-> NoRing]

RegisterStep(t) == RegisterCall(t) \/ RegisterFetchAdd(t) \/ RegisterUndo(t)

CloseStep == ChanCloseStore \/ ChanCloseLoad \/ ChanCloseRing

NextReg == (\E t \in Threads : RegisterStep(t)) \/ CloseStep
SpecReg == InitChannel /\ [][NextReg]_vars

(***************************************************************************)
(* A channel whose max_producers producers were registered up front (as    *)
(* the benchmark does), send concurrently, and whose consumer drains it    *)
(* with Channel::recv and Channel::consume_all.                            *)
(***************************************************************************)
Senders == 0 .. (MaxProducers - 1)

\* The state after max_producers calls of register_producer, one by each
\* sender
InitSenders ==
    /\ InitRings
    /\ active = [r \in Rings |-> TRUE]
    /\ producer_count = MaxProducers
    /\ reg = [t \in Threads |->
                IF t \in Senders THEN [RegIdle EXCEPT !.id = t, !.ret = "Producer"]
                ELSE RegIdle]
    /\ handle = [t \in Threads |-> IF t \in Senders THEN t ELSE NoRing]

SendStep(t) ==
    \/ \E n \in 1 .. CAPACITY : ReserveCall(t, "send", n)
    \/ ReserveRefresh(t)
    \/ ReserveIsClosed(t)
    \/ WriteSlice(t)
    \/ Commit(t)

DrainStep ==
    \/ \E outsz \in 1 .. MaxOut : ChanCall("ch_recv", outsz)
    \/ ChanCall("consume_all", 0)
    \/ ChanLoop
    \/ ReadableRefresh
    \/ ReadSlice
    \/ Advance
    \/ BatchProcess
    \/ BatchStore

NextChan == (\E t \in Senders : SendStep(t)) \/ DrainStep
SpecChan == InitSenders /\ [][NextChan]_vars

(***************************************************************************)
(* The same channel driven without concurrency, as the test suite drives   *)
(* it with send, Channel::recv and Channel::consume_all: a call starts     *)
(* only when no other call is in progress.                                 *)
(***************************************************************************)
Quiescent ==
    /\ cons.pc = "idle"
    /\ \A t \in Threads : prod[t].pc = "idle"

\* The items sent so far by all producers together
RECURSIVE SentBelow(_)
SentBelow(t) == IF t = 0 THEN 0 ELSE prod[t - 1].sent + SentBelow(t - 1)
TotalSent == SentBelow(NumThreads)

\* The producers send MaxItems items between them.
NextSeq ==
    \/ /\ Quiescent
       /\ \E t \in Senders, n \in 1 .. CAPACITY :
              TotalSent + n <= MaxItems /\ ReserveCall(t, "send", n)
    \/ Quiescent /\ \E outsz \in 1 .. MaxOut : ChanCall("ch_recv", outsz)
    \/ Quiescent /\ ChanCall("consume_all", 0)
    \/ \E t \in Senders : ReserveRefresh(t) \/ ReserveIsClosed(t)
                            \/ WriteSlice(t) \/ Commit(t)
    \/ ChanLoop
    \/ ReadableRefresh
    \/ ReadSlice
    \/ Advance
    \/ BatchProcess
    \/ BatchStore
SpecSeq == InitSenders /\ [][NextSeq]_vars

(***************************************************************************)
(* A channel whose producers were registered up front and which is closed, *)
(* by Channel::close and by Ring::close, while producer 0 sends and the    *)
(* consumer drains its ring with readable/advance, recv and consume_batch. *)
(***************************************************************************)
NextShut ==
    \/ SendStep(0)
    \/ ReadableStep(0)
    \/ BatchStep(0)
    \/ CloseStep
    \/ \E r \in Rings : RingClose(r)
SpecShut == InitSenders /\ [][NextShut]_vars

(***************************************************************************)
(* Claims about a single ring                                              *)
(***************************************************************************)
IsPrefix(s, q) == Len(s) <= Len(q) /\ s = SubSeq(q, 1, Len(s))

\* The positions that are committed and not yet consumed
Pending(r) == head[r] .. (tail[r] - 1)

\* C1: FIFO within a ring.  The items the producer committed to a ring are
\* v1..vk = committed[r], one per position up to tail.  What the consumer
\* has consumed through readable/advance and recv is, at every moment, the
\* first head items of it, and what it reads from a slice it holds are the
\* items at the slice's positions: nothing lost, duplicated or reordered.
C1_FifoWithinRing ==
    \A r \in Rings :
        /\ Len(committed[r]) = tail[r]
        /\ Len(received[r]) = head[r]
        /\ IsPrefix(received[r], committed[r])
        /\ (cons.pc = "slice" /\ cons.ring = r) =>
               cons.got = SubSeq(committed[r], head[r] + 1, head[r] + cons.k)

\* C1 witness: MaxItems items, more than the ring has cells, went through
\* the ring in order.
C1_Witness ==
    /\ Len(received[0]) >= MaxItems
    /\ Len(received[0]) > CAPACITY
    /\ received[0] = committed[0]

\* C2: no overwrite.  While a thread holds a reservation of length len at
\* pos (= tail), tail + len - head <= capacity for the ring's true head, and
\* no cell of the slice is the cell of a committed, unconsumed position.
C2_NoOverwrite ==
    \A t \in Threads :
        prod[t].pc = "write" =>
            LET r == handle[t]
            IN  /\ prod[t].pos = tail[r]
                /\ prod[t].len >= 1
                /\ tail[r] + prod[t].len - head[r] <= CAPACITY
                /\ \A j \in 0 .. (prod[t].len - 1), q \in Pending(r) :
                       Index(prod[t].pos + j) # Index(q)

\* C2 witness: a reservation granted on the fast path from a stale
\* cached_head_, in a ring whose positions have wrapped around the buffer.
C2_Witness ==
    /\ prod[0].pc = "write"
    /\ cached_head[0] < head[0]
    /\ tail[0] >= CAPACITY

\* C3: the ring position invariant, head <= tail and tail - head <= capacity.
C3_PositionInvariant ==
    \A r \in Rings : head[r] <= tail[r] /\ tail[r] - head[r] <= CAPACITY

\* C8: a closed ring accepts no new writes.  A reserve, reserve_with_backoff
\* or send that starts on a closed ring gets no reservation (and so returns
\* none / 0), and reserve_with_backoff does not snooze before it returns.
C8_ClosedRingRejects ==
    \A t \in Threads :
        prod[t].startClosed =>
            /\ prod[t].pc # "write"
            /\ prod[t].pc # "bo_snooze"
            /\ prod[t].step = 0

\* The slice the consumer holds is non-empty, starts at head_ and lies
\* within the committed, unconsumed positions.
C9_SliceValid ==
    cons.pc = "slice" =>
        /\ cons.slen >= 1
        /\ cons.lhead = head[cons.ring]
        /\ \A j \in 0 .. (cons.slen - 1) : (cons.lhead + j) \in Pending(cons.ring)

\* readable returns a slice only from a non-empty ring, and none (after its
\* load of tail_) only from an empty one.
C9_NoneIffEmpty ==
    /\ (cons.pc \in {"idle", "rd_refresh"} /\ cons'.pc = "slice")
           => head[cons'.ring] # tail[cons'.ring]
    /\ (cons.pc = "rd_refresh" /\ cons'.pc = "idle")
           => head[cons.ring] = tail[cons.ring]

\* C9: readable returns none iff the ring is empty, and a slice it returns
\* is non-empty and lies within the committed, unconsumed positions
\* [head, tail), after any mix of readable, advance, recv and consume_batch.
C9_ReadableNoneIffEmpty == [](C9_SliceValid) /\ [][C9_NoneIffEmpty]_vars

\* The step with which consume_batch returns: after its loop when no commit
\* has happened since it loaded tail_, and at once on an empty ring.
C10_DrainStep ==
    /\ (cons.pc = "cb_loop" /\ cons'.pc # "cb_loop"
            /\ tail[cons.ring] = cons.ltail) =>
           LET r == cons.ring
           IN  /\ cons.got = SubSeq(committed[r], head[r] + 1, tail[r])
               /\ cons.k = tail[r] - head[r]
               /\ cons'.ret = RetCount(tail[r] - head[r])
               /\ head'[r] = tail'[r]
    /\ \A r \in Rings :
           (cons.pc = "idle" /\ cons' # cons /\ cons'.api = "batch"
                /\ cons'.ring = r /\ head[r] = tail[r]) =>
               /\ cons'.pc = "idle"
               /\ cons'.ret = RetCount(0)
               /\ head'[r] = head[r]
               /\ received'[r] = received[r]

PendingIntact(r) ==
    \A q \in Pending(r) : buffer[r][Index(q)] = committed[r][q + 1]

\* A step of a consume_batch call: its loads, one handler call, or its store
C11_BatchStep ==
    LET r == cons'.ring
    IN  /\ (cons.pc = "idle" /\ cons'.pc = "cb_loop") =>
               /\ cons'.lhead = head[r]
               /\ cons'.ltail = tail[r]
               /\ cons'.ltail = Len(committed[r])
        /\ (cons.pc = "cb_loop" /\ cons'.pc = "cb_loop" /\ cons' # cons) =>
               /\ cons'.k = cons.k + 1
               /\ cons.lhead + cons.k < cons.ltail
               /\ cons'.got = Append(cons.got, committed[cons.ring][cons.lhead + cons.k + 1])
               /\ head' = head
        /\ (cons.pc = "cb_loop" /\ cons'.pc # "cb_loop") =>
               LET b == cons.ring
               IN  /\ cons.lhead = head[b]
                   /\ cons.got = SubSeq(committed[b], cons.lhead + 1, cons.ltail)
                   /\ head'[b] = cons.ltail
                   /\ cons.ltail <= tail'[b]
                   /\ PendingIntact(b)'

AllConsumed ==
    /\ \A t \in Senders : prod[t].pc = "idle" /\ prod[t].sent = MaxItems
    /\ cons.pc = "idle"
    /\ \A r \in Rings : head[r] = tail[r]

\* C4: MPSC totality.  What the consumer has received from each producer's
\* ring is, in order, the first items that producer committed; while the
\* consumer is between two calls it has received exactly the items it has
\* consumed from each ring; and when everything is consumed it has received
\* each producer's N = MaxItems items, K*N in total.
C4_MpscTotality ==
    /\ \A r \in Rings :
           /\ IsPrefix(received[r], committed[r])
           /\ cons.pc = "idle" => Len(received[r]) = head[r]
    /\ AllConsumed => \A r \in Rings : received[r] = committed[r]
                                        /\ Len(received[r]) = MaxItems

\* The calls of register_producer that have incremented producer_count_
\* and not yet undone it
Undoing == {t \in Threads : reg[t].pc = "undo"}

\* C5: exclusive ring ownership.  No two handles name the same id / ring,
\* the ids handed out are exactly 0 .. s-1 for s successes, each names a
\* ring of the channel, and a call is failing with TooManyProducers only
\* when max_producers registrations have succeeded.
C5_ExclusiveOwnership ==
    /\ \A t1, t2 \in Registered : t1 # t2 => handle[t1] # handle[t2]
    /\ {handle[t] : t \in Registered} = 0 .. (Cardinality(Registered) - 1)
    /\ \A t \in Registered :
           /\ handle[t] \in Rings
           /\ reg[t].id = handle[t]
           /\ reg[t].ret = "Producer"
           /\ active[handle[t]]
    /\ \A t \in Threads :
           (reg[t].pc = "undo" \/ reg[t].ret = "TooManyProducers")
               => Cardinality(Registered) = MaxProducers

\* C5 witness: two calls overflow at the same time after max_producers
\* others have succeeded.
C5_Witness ==
    /\ Cardinality(Registered) = MaxProducers
    /\ Cardinality(Undoing) = 2
    /\ producer_count = MaxProducers + 2

\* A step of thread t's register_producer call, and the step it returns with
RegisterStepOf(t) == reg'[t] # reg[t]
RegisterReturnOf(t) == reg'[t] # reg[t] /\ reg'[t].pc = "idle"

\* register_producer leaves every handle and every ring as it is
RegisterFrame ==
    UNCHANGED <<metrics, handle, tail, cached_head, head, cached_tail, active, closed,
                buffer, committed>>

\* A step of a register_producer call that started once max_producers
\* registrations had succeeded, with the result the cap is said to give
C6_OriginalStep ==
    \A t \in Threads :
        (RegisterStepOf(t) /\ reg'[t].startFull) =>
            /\ RegisterFrame
            /\ RegisterReturnOf(t) =>
                   /\ reg'[t].ret = "TooManyProducers"
                   /\ producer_count' = MaxProducers

\* C6 as claimed: a register_producer call that starts once max_producers
\* registrations have succeeded returns TooManyProducers, leaves
\* producer_count equal to max_producers when it returns, and changes no
\* handle and no ring.
C6_RegistrationCapAsClaimed == [][C6_OriginalStep]_vars

\* The same step with the result the code gives
C6_AmendedStep ==
    \A t \in Threads :
        (RegisterStepOf(t) /\ reg'[t].startFull) =>
            /\ RegisterFrame
            /\ RegisterReturnOf(t) =>
                   /\ reg'[t].ret \in {"TooManyProducers", "Closed"}
                   /\ reg'[t].ret = "Closed" => ch_closed
                   /\ handle'[t] = NoRing
                   /\ producer_count' = MaxProducers + Cardinality(Undoing \ {t})

\* C6 as amended: such a call returns TooManyProducers, or Closed when the
\* channel has been closed, and never a handle; when it returns,
\* producer_count equals max_producers plus the number of other overflowing
\* calls that are between their fetch_add and their fetch_sub; and it
\* changes no handle and no ring.
C6_RegistrationCap == [][C6_AmendedStep]_vars

\* C6 witness: after max_producers successes a call has returned
\* TooManyProducers while another overflowing call has yet to undo.
C6_Witness ==
    /\ Cardinality(Registered) = MaxProducers
    /\ \E t \in Threads : reg[t].pc = "idle" /\ reg[t].startFull
                            /\ reg[t].ret = "TooManyProducers"
    /\ Cardinality(Undoing) = 1
    /\ producer_count = MaxProducers + 1

\* The first step of a register_producer call on a closed channel
C7_ClosedStep ==
    \A t \in Threads :
        (reg[t].pc = "idle" /\ RegisterStepOf(t) /\ ch_closed) =>
            /\ reg'[t].pc = "idle"
            /\ reg'[t].ret = "Closed"
            /\ handle' = handle
            /\ active' = active
            /\ producer_count' = producer_count

\* C7: registration after close.  A register_producer call whose first
\* step (the load of closed_) comes after Channel::close has stored closed_
\* returns Closed with that step, hands out no ring and leaves
\* producer_count unchanged.
C7_RegistrationAfterClose == [][C7_ClosedStep]_vars

\* C7 witness: one producer registered, the channel was closed, and a later
\* call returned Closed.
C7_Witness ==
    /\ ch_closed
    /\ producer_count = 1
    /\ \E t \in Threads : reg[t].ret = "Closed" /\ handle[t] = NoRing

\* What a caller can observe of the channel and its rings
Observable == <<closed, ch_closed, head, tail, producer_count, buffer>>

\* A step of a close: no flag is ever reset, a Ring::close of a closed ring
\* changes nothing, and no step of a Channel::close that follows a completed
\* one changes anything observable.
C12_CloseStep ==
    /\ ch_closed => ch_closed'
    /\ \A r \in Rings : closed[r] => closed'[r]
    /\ \A r \in Rings : (closed[r] /\ RingClose(r)) => UNCHANGED vars
    /\ (closer.calls >= 1 /\ closer.pc = "idle" /\ closer' # closer)
           => UNCHANGED Observable
    /\ (closer.calls >= 2 /\ closer' # closer) => UNCHANGED Observable

ClosingStep == closed' # closed \/ ch_closed' # ch_closed \/ closer' # closer

\* A close changes no position, no cell and nothing that was delivered; and
\* on a closed ring the consumer's calls work as on an open one: a call on
\* a non-empty ring does not come back empty, a slice or batch starts at
\* head, a read of a pending position yields the item committed there, and
\* head moves by the number of items taken.
C13_CloseStep ==
    /\ ClosingStep =>
           UNCHANGED <<head, tail, buffer, cached_head, cached_tail,
                       committed, received>>
    /\ \A r \in Rings :
           (closed[r] /\ cons' # cons /\ cons'.ring = r) =>
               /\ (cons.pc \in {"idle", "rd_refresh"} /\ head[r] < tail[r]
                       /\ cached_tail'[r] = tail[r])
                      => cons'.pc \in {"slice", "cb_loop"}
               /\ (cons.pc \in {"idle", "rd_refresh"} /\ head[r] < tail[r])
                      => cons'.pc \in {"slice", "cb_loop", "rd_refresh"}
               /\ (cons.pc \in {"idle", "rd_refresh"}
                       /\ cons'.pc \in {"slice", "cb_loop"})
                      => cons'.lhead = head[r]
               /\ (cons.pc \in {"slice", "cb_loop"} /\ cons'.pc = cons.pc
                       /\ (cons.lhead + cons.k) \in Pending(r))
                      => cons'.got = Append(cons.got,
                                            committed[r][cons.lhead + cons.k + 1])
               /\ head'[r] # head[r]
                      => /\ head'[r] = head[r] + cons.k
                         /\ Len(cons.got) = cons.k

Reserving == prod[0].pc \in {"refresh", "chk_closed", "bo_closed", "bo_snooze"}

\* The step with which a reserve, reserve_with_backoff or send returns
ReserveReturns ==
    /\ prod'[0] # prod[0]
    /\ prod[0].pc # "write"
    /\ prod'[0].pc \in {"idle", "write"}

\* On a full ring every call returns none (0 from send) and moves neither
\* tail nor head; reserve_with_backoff returns because the ring is closed
\* or because the snooze after its (YIELD_LIMIT + 1)-th attempt completed
\* the Backoff.
C14_FullStep ==
    (ReserveReturns /\ tail[0] - head[0] = CAPACITY) =>
        /\ prod'[0].pc = "idle"
        /\ prod'[0].ret \in {RetNone, RetCount(0)}
        /\ tail' = tail
        /\ head' = head
        /\ prod[0].pc = "bo_snooze" =>
               /\ prod[0].step = YIELD_LIMIT
               /\ IsCompleted(Snooze(prod[0].step))
        /\ prod[0].pc = "bo_closed" => closed[0]

\* C14: full ring.  When tail - head = capacity at the moment a reserve,
\* reserve_with_backoff or send returns (so the consumer has not advanced
\* during the call), the call returns none and leaves tail and head
\* unchanged; reserve_with_backoff makes at most YIELD_LIMIT + 1 attempts,
\* its Backoff step never exceeding YIELD_LIMIT inside the call, and every
\* call the producer has entered returns.
C14_FullRing ==
    /\ [][C14_FullStep]_vars
    /\ [](Reserving => prod[0].step <= YIELD_LIMIT)
    /\ (Reserving ~> ~Reserving)

\* C14 witness: on a full, open ring reserve_with_backoff(1) has failed
\* YIELD_LIMIT + 1 times and is about to snooze for the last time.
C14_Witness ==
    /\ prod[0].op = "backoff"
    /\ prod[0].pc = "bo_snooze"
    /\ prod[0].n = 1
    /\ prod[0].step = YIELD_LIMIT
    /\ tail[0] - head[0] = CAPACITY
    /\ ~closed[0]

\* The step of a Backoff after k calls of snooze
RECURSIVE SnoozeTimes(_, _)
SnoozeTimes(step, k) == IF k = 0 THEN step ELSE SnoozeTimes(Snooze(step), k - 1)

\* What holds of every Backoff in every state: it is completed iff its step
\* exceeds YIELD_LIMIT, a fresh one is not, and from its step exactly
\* YIELD_LIMIT + 1 - step calls of snooze complete it, no fewer.
C15_BackoffState ==
    \A t \in Rings :
        LET step == prod[t].step
            left == IF step > YIELD_LIMIT THEN 0 ELSE YIELD_LIMIT + 1 - step
        IN  /\ step \in 0 .. (YIELD_LIMIT + 1)
            /\ IsCompleted(step) <=> step > YIELD_LIMIT
            /\ step = 0 => ~IsCompleted(step)
            /\ IsCompleted(SnoozeTimes(step, left))
            /\ \A k \in 0 .. (left - 1) : ~IsCompleted(SnoozeTimes(step, k))

\* What every call does to the step
C15_BackoffStep ==
    \A t \in Rings :
        LET step == prod[t].step
            next == prod'[t].step
        IN  /\ (BackoffSpin(t) /\ step = 0) => ~IsCompleted(next)
            /\ BackoffSnoozeCall(t) =>
                   next = IF step <= YIELD_LIMIT THEN step + 1 ELSE step
            /\ ((BackoffSpin(t) \/ BackoffSnoozeCall(t)) /\ IsCompleted(step))
                   => IsCompleted(next)
            /\ BackoffReset(t) => ~IsCompleted(next)

\* C15: Backoff progression.  A fresh Backoff is not completed and one spin
\* leaves it so; each snooze raises step by one until step exceeds
\* YIELD_LIMIT, so repeated snoozes complete it after finitely many calls;
\* is_completed is true iff step > YIELD_LIMIT; a completed Backoff stays
\* completed under spin and snooze, and reset makes it not completed.
C15_BackoffProgression == [](C15_BackoffState) /\ [][C15_BackoffStep]_vars

\* C15 witness: one Backoff is completed and the other has been taken to
\* the end of its spin phase.
C15_Witness ==
    /\ IsCompleted(prod[0].step)
    /\ prod[1].step = SPIN_LIMIT + 1

\* A step of a Channel::recv(out) call: the rings are visited in index order
\* from 0, each at most once and only while out has room; what is taken
\* from ring i are the cells at its positions head, head + 1, ... in that
\* order (the items committed there, for the positions below tail), at most
\* the room left, appended to out after what the rings before it gave; head
\* of ring i moves by the number taken; and the call returns the number of
\* items in out.
C16_RecvStep ==
    (cons.chop = "ch_recv" /\ cons' # cons) =>
        /\ cons.pc = "ch_loop" =>
               /\ Len(cons.out) = cons.total
               /\ cons.total <= cons.outsz
               /\ cons'.pc = "idle" =>
                      /\ cons'.ret = RetCount(Len(cons.out))
                      /\ cons.i = cons.cnt \/ cons.total = cons.outsz
               /\ cons'.pc # "idle" =>
                      /\ cons.i < cons.cnt
                      /\ cons'.ring = cons.i
                      /\ cons'.i = cons.i
               /\ cons'.pc = "slice" => cons'.lhead = head[cons.i]
               /\ UNCHANGED <<head, received>>
        /\ (cons.pc = "slice" /\ cons'.pc = "slice") =>
               LET r == cons.ring
                   q == cons.lhead + cons.k
               IN  /\ cons.lhead = head[r]
                   /\ cons'.k = cons.k + 1
                   /\ cons'.k <= cons.outsz - cons.total
                   /\ \E v \in ReadOutcomes(buffer[r][Index(q)]) :
                          /\ cons'.got = Append(cons.got, v)
                          /\ cons'.out = Append(cons.out, v)
                   /\ q \in Pending(r) =>
                          cons'.out = Append(cons.out, committed[r][q + 1])
                   /\ UNCHANGED <<head, received>>
        /\ (cons.pc \in {"slice", "rd_refresh"} /\ cons'.pc = "ch_loop") =>
               LET r == cons.ring
                   taken == head'[r] - head[r]
               IN  /\ r = cons.i
                   /\ cons'.i = cons.i + 1
                   /\ taken \in 0 .. (cons.outsz - cons.total)
                   /\ cons'.total = cons.total + taken
                   /\ cons'.out = cons.out
                   /\ Len(cons'.out) = cons'.total
                   /\ \A q \in Rings \ {r} : head'[q] = head[q]

SliceLength(tl, n) ==
    IF n <= CAPACITY - (tl % CAPACITY) THEN n ELSE CAPACITY - (tl % CAPACITY)

\* The cells of the positions pos .. pos + len - 1 of the ring of thread 0
\* hold the next len items of its producer, in order.
SliceWritten(pos, len) ==
    \A j \in 0 .. (len - 1) :
        buffer[0][(pos + j) % CAPACITY] = Item(0, prod[0].sent + j + 1)

\* A step of a send(items) call of thread 0, items.size() = n
C17_SendStep ==
    LET pr == prod[0]
        nx == prod'[0]
    IN  (nx # pr /\ (pr.op = "send" \/ pr.pc = "idle") /\ nx.op = "send") =>
            \* the reservation: of min(n, capacity - tail mod capacity) cells at tail
            /\ (pr.pc # "write" /\ nx.pc = "write") =>
                   /\ nx.n \in 1 .. CAPACITY
                   /\ nx.pos = tail[0]
                   /\ nx.len = SliceLength(tail[0], nx.n)
                   /\ nx.len >= 1
                   /\ tail[0] + nx.n - head[0] <= CAPACITY
                   /\ UNCHANGED <<tail, buffer>>
            \* the copy: one cell of the slice
            /\ (pr.pc = "write" /\ nx.pc = "write") =>
                   /\ nx.w = pr.w + 1
                   /\ pr.w < pr.len
                   /\ UNCHANGED tail
            \* the commit and the return of L
            /\ (pr.pc = "write" /\ nx.pc = "idle") =>
                   /\ SliceWritten(pr.pos, pr.len)
                   /\ tail'[0] = tail[0] + pr.len
                   /\ nx.ret = RetCount(pr.len)
                   /\ pr.len = SliceLength(tail[0], pr.n)
                   /\ UNCHANGED buffer
            \* the return of 0
            /\ (pr.pc # "write" /\ nx.pc = "idle") =>
                   /\ nx.ret = RetCount(0)
                   /\ UNCHANGED <<tail, buffer>>
            \* no step of a send that has no reservation touches the ring
            /\ (pr.pc # "write" /\ nx.pc # "write") => UNCHANGED <<tail, buffer>>

\* Why a send returns 0: the input is empty or larger than the ring, the
\* refreshed head leaves too little space, or the ring was found closed.
C17_SendFails ==
    LET pr == prod[0]
        nx == prod'[0]
    IN  /\ \A n \in Sizes :
               ReserveCall(0, "send", n) =>
                   IF n \in 1 .. CAPACITY THEN nx.pc \in {"write", "refresh"}
                   ELSE nx.pc = "idle" /\ nx.ret = RetCount(0)
        /\ (nx # pr /\ pr.op = "send" /\ nx.pc = "idle") =>
               /\ pr.pc = "refresh" => Sub(CAPACITY, Sub(tail[0], head[0])) < pr.n
               /\ pr.pc = "chk_closed" => closed[0]

\* C17: send(items) performs exactly one reserve+commit pair.  If its
\* reserve succeeds it copies the first L = min(items.size(), capacity -
\* tail mod capacity) items into the cells from tail on, in order, advances
\* tail by exactly L and returns L; otherwise it returns 0 and leaves tail
\* and the buffer unchanged; so tail, and with it len(), grows by exactly
\* the count returned.
C17_SendOnce == [][C17_SendStep /\ C17_SendFails]_vars

\* C17 witness: a send of two items at the last cell of the buffer got a
\* slice of one cell, has copied one item and is about to commit it.
C17_Witness ==
    /\ prod[0].op = "send"
    /\ prod[0].pc = "write"
    /\ prod[0].n = 2
    /\ prod[0].len = 1
    /\ prod[0].w = 1
    /\ prod[0].pos % CAPACITY = CAPACITY - 1

\* Ring::len(): tail - head in 64-bit unsigned arithmetic
RingLen(r) == Sub(tail[r], head[r])

\* A step of a reserve(n) call of thread 0 and of the commit that follows it
C18_RoundTripStep ==
    LET pr == prod[0]
        nx == prod'[0]
    IN  (nx # pr /\ (pr.op = "reserve" \/ pr.pc = "idle") /\ nx.op = "reserve") =>
            \* reserve returns the slice and moves nothing
            /\ (pr.pc # "write" /\ nx.pc = "write") =>
                   /\ nx.ret = RetSome(SliceLength(tail[0], nx.n))
                   /\ nx.len = SliceLength(tail[0], nx.n)
                   /\ nx.len >= 1
                   /\ nx.pos = tail[0]
                   /\ UNCHANGED <<tail, head, buffer>>
                   /\ RingLen(0)' = RingLen(0)
            \* on an open ring with room for n, reserve(n) does not fail
            /\ \A n \in 1 .. CAPACITY :
                   ReserveCall(0, "reserve", n) => nx.pc \in {"write", "refresh"}
            /\ (pr.pc = "refresh" /\ nx.pc = "idle") =>
                   CAPACITY - (tail[0] - head[0]) < pr.n
            /\ (pr.pc = "chk_closed" /\ nx.pc = "idle") => closed[0]
            \* commit of the slice's length
            /\ (pr.pc = "write" /\ nx.pc = "idle") =>
                   /\ tail'[0] = tail[0] + pr.len
                   /\ head' = head
                   /\ nx.sent = pr.sent + pr.len

\* len() is the number of items committed and not yet consumed, at most
\* the capacity; with no consumption it is the total committed count.
C18_Len ==
    LET len == RingLen(0)
    IN  /\ len = Len(committed[0]) - Len(received[0])
        /\ len <= CAPACITY
        /\ Len(committed[0]) = prod[0].sent
        /\ head[0] = 0 => len = prod[0].sent

RingGetMetrics(r) == metrics[r]

\* Channel::get_metrics(): the counters of rings 0 .. count - 1 added up
RECURSIVE SumMetrics(_)
SumMetrics(count) ==
    IF count = 0 THEN NoMetrics
    ELSE LET m == SumMetrics(count - 1)
             rm == RingGetMetrics(count - 1)
         IN  [messages_sent |-> Add(m.messages_sent, rm.messages_sent),
              messages_received |->
                  Add(m.messages_received, rm.messages_received)]

ChannelGetMetrics == SumMetrics(producer_count)

\* The items committed to, delivered from and queued in rings 0 .. n - 1
RECURSIVE CommittedBelow(_), ReceivedBelow(_), QueuedBelow(_)
CommittedBelow(n) ==
    IF n = 0 THEN 0 ELSE Len(committed[n - 1]) + CommittedBelow(n - 1)
ReceivedBelow(n) ==
    IF n = 0 THEN 0 ELSE Len(received[n - 1]) + ReceivedBelow(n - 1)
QueuedBelow(n) ==
    IF n = 0 THEN 0 ELSE Add(RingLen(n - 1), QueuedBelow(n - 1))

\* C19: metrics additivity.  Once every operation has finished,
\* Channel::get_metrics().messages_sent is the sum over the registered
\* rings of the counts passed to commit, messages_received is the sum of
\* the counts passed to advance and returned by consume_batch, and
\* messages_sent - messages_received is the sum of tail - head over the
\* rings (all in 64-bit unsigned arithmetic).
C19_MetricsAdditive ==
    Quiescent =>
        LET m == ChannelGetMetrics
        IN  /\ m.messages_sent = CommittedBelow(producer_count) % Wrap
            /\ m.messages_received = ReceivedBelow(producer_count) % Wrap
            /\ Sub(m.messages_sent, m.messages_received) =
                   QueuedBelow(producer_count)

\* C19 witness: both rings have been sent to, a ring was last drained by
\* consume_batch (its cached_tail is behind), Channel::recv (advance) has
\* just delivered, and an item is still queued.
C19_Witness ==
    /\ Quiescent
    /\ \A r \in Rings : RingGetMetrics(r).messages_sent >= 1
    /\ ChannelGetMetrics.messages_received >= 2
    /\ cons.api = "ch_recv"
    /\ cons.ret.kind = "count"
    /\ cons.ret.val >= 1
    /\ \E r \in Rings : /\ Len(received[r]) >= 1
                        /\ head[r] = tail[r]
                        /\ cached_tail[r] # tail[r]
    /\ ChannelGetMetrics.messages_sent > ChannelGetMetrics.messages_received

(***************************************************************************)
(* The span readable() returns                                             *)
(***************************************************************************)
\* readable() (called directly or by recv) returns a slice in this step
ReadableReturnsSlice ==
    /\ cons.pc \in {"idle", "rd_refresh"}
    /\ cons'.pc = "slice"

\* The slice of the step starts at index head mod capacity and covers
\* min(upto - head, capacity - head mod capacity) cells
SpanUpTo(r, upto) ==
    /\ cons'.lhead = head[r]
    /\ Index(cons'.lhead) = head[r] % CAPACITY
    /\ cons'.slen = Min((upto - head[r]) % Wrap,
                        CAPACITY - (head[r] % CAPACITY))

C20_AsClaimedStep ==
    ReadableReturnsSlice => SpanUpTo(cons'.ring, tail[cons'.ring])

\* C20 as stated: whenever readable() returns a slice, it starts at index
\* head mod capacity and its length is min(tail - head, capacity - head mod
\* capacity) for the ring's tail at the time of the call, also when
\* cached_tail was set by an earlier call and the producer has committed
\* more since.
C20_ReadableSpanAsClaimed == [][C20_AsClaimedStep]_vars

C20_ReadableStep ==
    LET r == cons'.ring
    IN  \* the tail is loaded exactly when cached_tail equals head on entry
        /\ (cons.pc = "idle" /\ cons'.pc \in {"slice", "rd_refresh"}) =>
               /\ cons'.pc = "rd_refresh" <=> cached_tail[r] = head[r]
               /\ cached_tail' = cached_tail
        /\ (cons.pc = "rd_refresh" /\ cons' # cons) =>
               /\ cached_tail[r] = head[r]
               /\ cached_tail'[r] = tail[r]
               /\ cons'.pc = "slice" <=> tail[r] # head[r]
        \* the slice runs up to cached_tail as the call leaves it
        /\ ReadableReturnsSlice =>
               /\ SpanUpTo(r, cached_tail'[r])
               /\ cons'.slen >= 1
               /\ head' = head

\* C20: whenever readable() returns a slice, it starts at index head mod
\* capacity and its length is min(c - head, capacity - head mod capacity)
\* in 64-bit unsigned arithmetic, where c is cached_tail after the call:
\* the tail loaded by this call if cached_tail equalled head on entry, and
\* otherwise the value an earlier call left, which is not refreshed.
C20_ReadableSpan == [][C20_ReadableStep]_vars

\* C20 witness: readable() has returned one item from a cached_tail set by
\* an earlier call although two committed items are queued before the
\* buffer end.
C20_Witness ==
    /\ cons.pc = "slice"
    /\ cons.api = "readable"
    /\ cons.ring = 0
    /\ head[0] = 0
    /\ cached_tail[0] = 1
    /\ tail[0] = 2
    /\ cons.slen = 1
    /\ Len(committed[0]) = 2
    /\ Len(received[0]) = 0

(***************************************************************************)
(* Channel::recv on its own: the producers send and the consumer calls     *)
(* Channel::recv, one call at a time.                                      *)
(***************************************************************************)
NextRecvSeq ==
    \/ /\ Quiescent
       /\ \E t \in Senders, n \in 1 .. CAPACITY :
              TotalSent + n <= MaxItems /\ ReserveCall(t, "send", n)
    \/ Quiescent /\ \E outsz \in 1 .. MaxOut : ChanCall("ch_recv", outsz)
    \/ \E t \in Senders : ReserveRefresh(t) \/ ReserveIsClosed(t)
                            \/ WriteSlice(t) \/ Commit(t)
    \/ ChanLoop
    \/ ReadableRefresh
    \/ ReadSlice
    \/ Advance
SpecRecvSeq == InitSenders /\ [][NextRecvSeq]_vars

\* Channel::recv returns in this step with fewer items than out holds
RecvReturnsShort ==
    /\ cons.pc = "ch_loop"
    /\ cons.chop = "ch_recv"
    /\ cons'.pc = "idle"
    /\ cons.total < cons.outsz

C21_AsClaimedStep ==
    RecvReturnsShort =>
        \A r \in Rings : r < producer_count => head'[r] = tail'[r]

\* C21 as stated: if Channel::recv(out) returns a count smaller than
\* out.size() and no producer commits during the call, every registered
\* ring is empty when it returns, also when a ring's pending items wrap
\* around the end of its buffer.
C21_RecvDrainsAsClaimed == [][C21_AsClaimedStep]_vars

C21_RecvStep ==
    LET r == cons.ring
    IN  \* a short return has visited every registered ring, and leaves each
        \* one empty, at the start of its buffer, or at its cached_tail
        /\ RecvReturnsShort =>
               /\ cons.i = cons.cnt
               /\ cons.cnt = producer_count
               /\ cons'.ret = RetCount(cons.total)
               /\ \A q \in Rings : q < producer_count =>
                      \/ head[q] = tail[q]
                      \/ head[q] % CAPACITY = 0
                      \/ head[q] = cached_tail[q]
        \* a ring gives min(slice, room left in out) items, the slice being
        \* the one readable() returns
        /\ (cons.chop = "ch_recv" /\ cons.pc = "slice" /\ cons'.pc = "ch_loop") =>
               /\ cons.slen = Min((cached_tail[r] - head[r]) % Wrap,
                                  CAPACITY - (head[r] % CAPACITY))
               /\ cons.k = Min(cons.slen, cons.outsz - cons.total)
               /\ head'[r] = (head[r] + cons.k) % Wrap
               /\ cons'.total = cons.total + cons.k
               /\ cons'.i = cons.i + 1
        \* a ring gives nothing only if it is empty
        /\ (cons.chop = "ch_recv" /\ cons.pc = "rd_refresh" /\ cons'.pc = "ch_loop") =>
               /\ head[r] = tail[r]
               /\ cons'.total = cons.total
               /\ cons'.i = cons.i + 1

\* C21: Channel::recv visits each registered ring once while out has room
\* and takes from it min(s, room) items, s being the length of the slice
\* readable() returns (it ends at cached_tail and at the buffer end).  If
\* it returns fewer than out.size() items with no commit during the call,
\* every registered ring was visited and is empty, or its head stands at
\* the start of the buffer, or its head has reached cached_tail.
C21_RecvDrains == [][C21_RecvStep]_vars

\* C21 witness: Channel::recv(out) with room for two items is about to
\* return one: ring 0 held two items wrapping around the end of its buffer
\* and still holds the second.
C21_Witness ==
    /\ cons.pc = "ch_loop"
    /\ cons.chop = "ch_recv"
    /\ cons.i = cons.cnt
    /\ cons.outsz = 2
    /\ cons.total = 1
    /\ head[0] = CAPACITY
    /\ tail[0] = CAPACITY + 1
    /\ cached_tail[0] = tail[0]
    /\ head[1] = tail[1]

(***************************************************************************)
(* reserve on a ring that has room                                         *)
(***************************************************************************)
\* Thread 0 is in a reserve(n) call (its own or send's) that began with
\* 1 <= n <= capacity on a ring that was open and had n free cells
ReserveWithRoom ==
    /\ prod[0].pc \in {"refresh", "chk_closed"}
    /\ prod[0].op \in {"reserve", "send"}
    /\ prod[0].startRoom
    /\ ~prod[0].startClosed

\* The same conditions at the call itself
ReserveCalledWithRoom ==
    \E n \in 1 .. CAPACITY, op \in {"reserve", "send"} :
        /\ ReserveCall(0, op, n)
        /\ ~closed[0]
        /\ CAPACITY - (tail[0] - head[0]) >= n

C22_AsClaimedStep ==
    /\ ReserveCalledWithRoom => prod'[0].pc \in {"write", "refresh"}
    /\ (ReserveWithRoom /\ prod'[0] # prod[0]) =>
           /\ prod'[0].pc \in {"chk_closed", "write"}
           /\ prod[0].pc = "chk_closed" => prod'[0].pc = "write"

\* C22 as stated: if the ring is not closed and its free space
\* capacity - (tail - head) is at least n, 1 <= n <= capacity, when
\* reserve(n) is called, reserve(n) succeeds; a stale cached_head causes at
\* most one refresh, never a none result.
C22_NoSpuriousFullAsClaimed == [][C22_AsClaimedStep]_vars

C22_ReserveStep ==
    /\ ReserveCalledWithRoom => prod'[0].pc \in {"write", "refresh"}
    /\ (ReserveWithRoom /\ prod'[0] # prod[0]) =>
           \* the one refresh finds the room
           /\ prod[0].pc = "refresh" =>
                  /\ prod'[0].pc = "chk_closed"
                  /\ cached_head'[0] = head[0]
           \* after it the call returns: the slice, or none for a ring that
           \* was closed in the meantime
           /\ prod[0].pc = "chk_closed" =>
                  /\ prod'[0].pc \in {"write", "idle"}
                  /\ prod'[0].pc = "idle" <=> closed[0]
                  /\ prod'[0].pc = "write" =>
                         prod'[0].len = SliceLength(tail[0], prod[0].n)

\* C22: a reserve(n) called with 1 <= n <= capacity on an open ring with at
\* least n free cells never fails for lack of space: the fast path
\* succeeds, or one refresh of cached_head from head finds the room.  It
\* then returns the slice unless the ring has been closed since the call,
\* in which case the is_closed() test after the refresh makes it return
\* none.
C22_NoSpuriousFull == [][C22_ReserveStep]_vars

\* C22 witness: a reserve called on an open ring with room has refreshed a
\* stale cached_head (the consumer had advanced) and found the room.
C22_Witness ==
    /\ ReserveWithRoom
    /\ prod[0].pc = "chk_closed"
    /\ ~closed[0]
    /\ prod[0].n = CAPACITY
    /\ tail[0] = head[0]
    /\ head[0] >= 1

(***************************************************************************)
(* Channel::close and the handles register_producer returns                *)
(***************************************************************************)
\* A call of Channel::close() has returned
CloseReturned == closer.calls >= 1 /\ closer.pc = "idle"

\* Thread t holds a Producer handle that register_producer has returned
HoldsHandle(t) == handle[t] # NoRing /\ reg[t].pc = "idle"

\* C23: once Channel::close() has returned, is_closed() is true for the
\* ring of every Producer handle register_producer has returned or will
\* return, including handles from calls that ran concurrently with
\* close(): no producer holds an open ring of a closed channel.
C23_CloseClosesHandedOut ==
    CloseReturned => \A t \in Threads : HoldsHandle(t) => closed[handle[t]]

(***************************************************************************)
(* The ring indices Channel::close uses                                    *)
(***************************************************************************)
\* C24: every value of producer_count that Channel::recv, consume_all,
\* close, get_metrics or producer_count() can read is at most
\* max_producers, in every interleaving with register_producer calls
\* (including ones that overflow and undo their increment), so no ring
\* outside rings[0 .. max_producers) is indexed.
C24_CountInBounds ==
    /\ producer_count <= MaxProducers
    /\ closer.pc = "loop" => closer.cnt <= MaxProducers
    /\ closer.pc # "out_of_bounds"

(***************************************************************************)
(* len() and is_full() called from a thread that is neither the producer   *)
(* nor the consumer of ring 0                                              *)
(***************************************************************************)
\* len(): const auto t = tail_.load(relaxed)
LenLoadTail ==
    /\ obs.pc = "idle"
    /\ obs' = [pc |-> "len_head", ltail |-> tail[0], ret |-> NoRet]
    /\ UNCHANGED <<ringVars, chanVars, handle, prod, reg, cons, closer,
                   committed, received>>

\* len(): const auto h = head_.load(relaxed); return t - h
LenLoadHead ==
    /\ obs.pc = "len_head"
    /\ obs' = [ObsIdle EXCEPT !.ret = RetCount(Sub(obs.ltail, head[0]))]
    /\ UNCHANGED <<ringVars, chanVars, handle, prod, reg, cons, closer,
                   committed, received>>

\* is_full() on the value len() returned
IsFull(len) == len >= CAPACITY

LenStep == LenLoadTail \/ LenLoadHead

\* Ring 0 with its producer, its consumer (readable/advance and recv) and
\* the observer
NextObs == ProducerStep(0) \/ ReadableStep(0) \/ LenStep
SpecObs == InitRing /\ [][NextObs]_vars

\* C25: len() called from any thread, its two loads interleaved in any way
\* with commits and advances, returns a value in [0, capacity], and
\* is_full() is true only if the ring held capacity items at some moment
\* of the call (so at least capacity items have been committed).
C25_LenIsOccupancy ==
    obs.ret.kind = "count" =>
        /\ obs.ret.val >= 0
        /\ obs.ret.val <= CAPACITY
        /\ IsFull(obs.ret.val) => Len(committed[0]) >= CAPACITY

(***************************************************************************)
(* The consumer's drain loop on ring 0: consume_batch until it returns 0   *)
(* on a ring that is closed and empty                                      *)
(***************************************************************************)
\* consume_batch has just returned 0 to the loop
BatchReturnedZero ==
    /\ cons.pc = "idle"
    /\ cons.api = "batch"
    /\ cons.chop = "none"
    /\ cons.ret = RetCount(0)

\* auto n = ring->consume_batch(handler)
DrainBatchCall == ~BatchReturnedZero /\ BatchCall(0)

\* if (n == 0): ring->is_closed(); an open ring sends the loop to
\* backoff.snooze() and round again
DrainIsClosed ==
    /\ BatchReturnedZero
    /\ cons' = IF closed[cons.ring] THEN [cons EXCEPT !.pc = "dr_empty"]
               ELSE [cons EXCEPT !.ret = NoRet]
    /\ UNCHANGED <<ringVars, chanVars, handle, prod, reg, closer, obs,
                   committed, received>>

\* ring->is_empty() on the closed ring: break, or round again
DrainIsEmpty ==
    /\ cons.pc = "dr_empty"
    /\ cons' = IF tail[cons.ring] = head[cons.ring]
               THEN [cons EXCEPT !.pc = "exited"]
               ELSE [cons EXCEPT !.pc = "idle", !.ret = NoRet]
    /\ UNCHANGED <<ringVars, chanVars, handle, prod, reg, closer, obs,
                   committed, received>>

DrainLoopStep ==
    \/ DrainBatchCall
    \/ BatchProcess
    \/ BatchStore
    \/ DrainIsClosed
    \/ DrainIsEmpty

\* Ring 0 with its producer, the drain loop and a thread that closes it
NextDrain == ProducerStep(0) \/ DrainLoopStep \/ RingClose(0)
SpecDrain == InitRing /\ [][NextDrain]_vars

\* C26: once the drain loop has observed is_closed() && is_empty() and
\* stopped, no item is committed to the ring any more, so every item ever
\* committed to it has been delivered to the handler.
C26_DrainLosesNothing ==
    cons.pc = "exited" => received[0] = committed[0]

====
